---- MODULE Spec2Model ----
(***************************************************************************)
(* Reward-payout service (src/app.py): POST /reward/send over the          *)
(* in-memory idempotency dict PAID, and GET /health, with one thread per   *)
(* request.                                                                *)
(*                                                                         *)
(* Each thread runs reward_send step by step; a step is one access to      *)
(* shared state (PAID, the clock, the gateway), so that every interleaving *)
(* the interpreter allows between two threads is a behaviour of Spec.      *)
(* SeqSpec is the same program with one request in flight at a time.       *)
(*                                                                         *)
(* Amounts are counted in lamports (amount_sol * LAMPORTS_PER_SOL), times  *)
(* in seconds.  PAID is CPython's insertion-ordered dict: an entry array   *)
(* in which pop leaves a dead slot and a new key is appended; the array is *)
(* only compacted by the sixth insertion, which MaxRequests keeps out of   *)
(* reach.  The body of a request is drawn where the code first reads it    *)
(* (after cleanup_paid), so a thread that is still sweeping has no body.   *)
(***************************************************************************)
EXTENDS Integers, Sequences, FiniteSets, TLC

\* ---------------------------------------------------------------- bounds
MaxRequests == 3
MaxTicks == 2

\* ------------------------------------------------------ program constants
LAMPORTS_PER_SOL == 1000000000
PAID_TTL_SEC == 60 * 60 * 24 * 7
\* REWARD_SOL_DEFAULT = 0.01 SOL, in lamports
REWARD_SOL_DEFAULT == LAMPORTS_PER_SOL \div 100
\* the upper limit 0.5 SOL of the amount check, in lamports
MaxAmount == LAMPORTS_PER_SOL \div 2

\* the request threads
Procs == {1, 2}

\* ----------------------------------------------------------------- inputs
\* receiver_wallet_address: missing/empty, a string that is no public key,
\* and two well-formed addresses
NoReceiver == ""
Receivers == {NoReceiver, "not-an-address", "r1", "r2"}

\* amount_sol as it arrives in the JSON body
AmountInputs ==
    {[t |-> "absent", v |-> 0], [t |-> "text", v |-> 0], [t |-> "nan", v |-> 0],
     [t |-> "num", v |-> -1], [t |-> "num", v |-> 0],
     [t |-> "num", v |-> MaxAmount], [t |-> "num", v |-> MaxAmount + 1]}

\* idempotency_key as it arrives: absent, or a JSON value (a string, or the
\* number 0) with its text str(idem_key)
KeyInputs ==
    {[t |-> "absent", v |-> ""], [t |-> "str", v |-> ""],
     [t |-> "num", v |-> "0"], [t |-> "str", v |-> "k1"]}

\* a JSON body that is an object, and one that is a non-empty array
ObjectBodies ==
    [json : {"object"}, receiver : Receivers, amount : AmountInputs,
     key : KeyInputs]
ArrayBody ==
    [json |-> "array", receiver |-> NoReceiver,
     amount |-> [t |-> "absent", v |-> 0], key |-> [t |-> "absent", v |-> ""]]
Bodies == ObjectBodies \cup {ArrayBody}
\* the body is not read yet
NoBody == [ArrayBody EXCEPT !.json = ""]

\* ------------------------------------------------------- pure functions
\* Pubkey.from_string(receiver) succeeds
IsPubkey(receiver) == receiver \in {"r1", "r2"}

\* float(amount_sol): ok = no exception
ToFloat(a) ==
    CASE a.t = "absent" -> [ok |-> TRUE, nan |-> FALSE, v |-> REWARD_SOL_DEFAULT]
      [] a.t = "num"    -> [ok |-> TRUE, nan |-> FALSE, v |-> a.v]
      [] a.t = "nan"    -> [ok |-> TRUE, nan |-> TRUE, v |-> 0]
      [] OTHER          -> [ok |-> FALSE, nan |-> FALSE, v |-> 0]

\* amount_sol <= 0 or amount_sol > 0.5 (every comparison with NaN is false)
OutOfRange(f) == ~f.nan /\ (f.v <= 0 \/ f.v > MaxAmount)

\* mutant: every key counts as supplied (no test of the key at all)
Truthy_Always(key) == TRUE

\* mutant: the key is tested by its text, if str(idem_key)
Truthy_OfText(key) == key.t # "absent" /\ key.v # ""

\* bool(idem_key): None, the empty string and the number 0 are false
Truthy(key) ==
    CASE key.t = "str" -> key.v # ""
      [] key.t = "num" -> key.v # "0"
      [] OTHER         -> FALSE

\* str(idem_key)
StrOf(key) == key.v

\* ------------------------------------------------------------ PAID (dict)
DeadSlot == [live |-> FALSE, key |-> <<"", "">>, sig |-> 0, ts |-> 0]
LiveSlot(k, sig, ts) == [live |-> TRUE, key |-> k, sig |-> sig, ts |-> ts]

LiveIdx(d) == {i \in DOMAIN d : d[i].live}
\* len(d)
Used(d) == Cardinality(LiveIdx(d))
\* k in d
Contains(d, k) == \E i \in LiveIdx(d) : d[i].key = k
\* d[k], for k in d
Get(d, k) == d[CHOOSE i \in LiveIdx(d) : d[i].key = k]
\* mutant: d.setdefault(k, (sig, ts)), the first writer wins
Put_IfAbsent(d, k, sig, ts) ==
    IF Contains(d, k) THEN d ELSE Append(d, LiveSlot(k, sig, ts))

\* d[k] = (sig, ts)
Put(d, k, sig, ts) ==
    IF Contains(d, k)
    THEN [i \in DOMAIN d |->
            IF d[i].live /\ d[i].key = k THEN LiveSlot(k, sig, ts) ELSE d[i]]
    ELSE Append(d, LiveSlot(k, sig, ts))
\* d.pop(k, None)
Pop(d, k) ==
    [i \in DOMAIN d |-> IF d[i].live /\ d[i].key = k THEN DeadSlot ELSE d[i]]

\* ------------------------------------------------------------- responses
NoResp ==
    [status |-> 0, ok |-> FALSE, error |-> "", sig |-> 0,
     already_paid |-> FALSE, to |-> "", amount |-> [nan |-> FALSE, v |-> 0]]
ErrorResp(status, error) == [NoResp EXCEPT !.status = status, !.error = error]
\* an exception no handler catches: the framework answers 500
Unhandled(exc) == ErrorResp(500, exc)
OkResp(sig, paid, to, f) ==
    [status |-> 200, ok |-> TRUE, error |-> "", sig |-> sig,
     already_paid |-> paid, to |-> to, amount |-> [nan |-> f.nan, v |-> f.v]]

\* the answer of GET /health: its own fields, none of a reward response
HealthResp ==
    [status |-> 200, ok |-> TRUE, error |-> "", sig |-> 0,
     already_paid |-> FALSE, to |-> "", amount |-> [nan |-> FALSE, v |-> 0],
     rpc |-> "SOLANA_RPC_URL", from_wallet |-> "payer_pubkey",
     default_reward_sol |-> REWARD_SOL_DEFAULT]

NoIter == [used |-> 0, pos |-> 1, len |-> 0]
NoFloat == [ok |-> FALSE, nan |-> FALSE, v |-> 0]

VARIABLES
    PAID,       \* the idempotency dict
    clock,      \* time.time()
    ticks,      \* how often the clock advanced
    nreq,       \* requests received so far
    ledger,     \* transfers the gateway accepted; a signature is its index
    pc,         \* where each thread stands in reward_send
    body,       \* the decoded JSON body
    now,        \* cleanup_paid's now
    it,         \* cleanup_paid's dict iterator
    expired,    \* cleanup_paid's expired
    amount_sol, \* float(amount_sol)
    signature,  \* resp.value
    calls,      \* gateway calls made for the request
    resp,       \* the response
    swept       \* history: the request's cleanup_paid removed a record

vars == <<PAID, clock, ticks, nreq, ledger, pc, body, now, it, expired,
          amount_sol, signature, calls, resp, swept>>

shared == <<PAID, clock, ticks, nreq, ledger>>

Init ==
    /\ PAID = <<>>
    /\ clock = 0
    /\ ticks = 0
    /\ nreq = 0
    /\ ledger = <<>>
    /\ pc = [p \in Procs |-> "idle"]
    /\ body = [p \in Procs |-> NoBody]
    /\ now = [p \in Procs |-> 0]
    /\ it = [p \in Procs |-> NoIter]
    /\ expired = [p \in Procs |-> <<>>]
    /\ amount_sol = [p \in Procs |-> NoFloat]
    /\ signature = [p \in Procs |-> 0]
    /\ calls = [p \in Procs |-> 0]
    /\ resp = [p \in Procs |-> NoResp]
    /\ swept = [p \in Procs |-> FALSE]

\* the (receiver, str(idem_key)) of a thread's request
KeyOf(p) == <<body[p].receiver, StrOf(body[p].key)>>

\* return <response>: the thread holds its response until it is sent
Return(p, r) ==
    /\ pc' = [pc EXCEPT ![p] = "done"]
    /\ resp' = [resp EXCEPT ![p] = r]

\* A thread that returned sends its response before any other step is taken:
\* sending touches the thread's own locals only, so no interleaving of the
\* accesses to PAID, the clock and the gateway is lost.
Sending == \E q \in Procs : pc[q] = "done"

\* thread p stands at label l
At(p, l) == pc[p] = l /\ ~Sending

\* the clock advances, by a second or by the TTL
Tick ==
    /\ ~Sending
    /\ ticks < MaxTicks
    /\ \E d \in {1, PAID_TTL_SEC} : clock' = clock + d
    /\ ticks' = ticks + 1
    /\ UNCHANGED <<PAID, nreq, ledger, pc, body, now, it, expired,
                   amount_sol, signature, calls, resp, swept>>

\* a POST /reward/send arrives and is handed to the first free thread;
\* cleanup_paid reads the clock
Receive(p) ==
    /\ At(p, "idle")
    /\ \A q \in Procs : q < p => pc[q] # "idle"
    /\ nreq < MaxRequests
    /\ nreq' = nreq + 1
    /\ now' = [now EXCEPT ![p] = clock]
    /\ pc' = [pc EXCEPT ![p] = "cleanup"]
    /\ UNCHANGED <<PAID, clock, ticks, ledger, body, it, expired, amount_sol,
                   signature, calls, resp, swept>>

\* mutant: GET /health sweeps the store like a reward request
Health_Sweeps(p) ==
    /\ At(p, "idle")
    /\ nreq < MaxRequests
    /\ nreq' = nreq + 1
    /\ PAID' = [i \in DOMAIN PAID |->
                  IF PAID[i].live /\ clock - PAID[i].ts > PAID_TTL_SEC
                  THEN DeadSlot ELSE PAID[i]]
    /\ Return(p, HealthResp)
    /\ UNCHANGED <<clock, ticks, ledger, body, now, it, expired, amount_sol,
                   signature, calls, swept>>

\* a GET /health arrives, is handed to the first free thread and answered:
\* health() reads the configuration only
Health(p) ==
    /\ At(p, "idle")
    /\ \A q \in Procs : q < p => pc[q] # "idle"
    /\ nreq < MaxRequests
    /\ nreq' = nreq + 1
    /\ Return(p, HealthResp)
    /\ UNCHANGED <<PAID, clock, ticks, ledger, body, now, it, expired,
                   amount_sol, signature, calls, swept>>

\* iter(PAID.items())
CleanupIter(p) ==
    /\ At(p, "cleanup")
    /\ it' = [it EXCEPT ![p] = [used |-> Used(PAID), pos |-> 1, len |-> Used(PAID)]]
    /\ pc' = [pc EXCEPT ![p] = "iterate"]
    /\ UNCHANGED <<shared, body, now, expired, amount_sol, signature,
                   calls, resp, swept>>

\* one next() of the iterator, and the comprehension's test of the item;
\* when the iterator is exhausted and nothing expired, cleanup_paid returns
CleanupNext(p) ==
    /\ At(p, "iterate")
    /\ LET rest == {i \in LiveIdx(PAID) : i >= it[p].pos}
           i == CHOOSE j \in rest : \A m \in rest : j <= m
       IN  IF it[p].used # Used(PAID) \/ (rest # {} /\ it[p].len = 0)
           THEN /\ Return(p, Unhandled("RuntimeError"))
                /\ expired' = [expired EXCEPT ![p] = <<>>]
                /\ it' = [it EXCEPT ![p] = NoIter]
                /\ now' = [now EXCEPT ![p] = 0]
           ELSE IF rest = {}
           THEN /\ pc' = [pc EXCEPT ![p] =
                            IF expired[p] = <<>> THEN "decode" ELSE "pop"]
                /\ it' = [it EXCEPT ![p] = NoIter]
                /\ now' = [now EXCEPT ![p] = IF expired[p] = <<>> THEN 0 ELSE @]
                /\ UNCHANGED <<expired, resp>>
           ELSE /\ it' = [it EXCEPT ![p].pos = i + 1, ![p].len = @ - 1]
                /\ expired' = [expired EXCEPT ![p] =
                                 IF now[p] - PAID[i].ts > PAID_TTL_SEC
                                 THEN Append(@, PAID[i].key) ELSE @]
                /\ UNCHANGED <<pc, resp, now>>
    /\ UNCHANGED <<shared, body, amount_sol, signature, calls, swept>>

\* PAID.pop(k, None) for the next k of expired; after the last, cleanup_paid
\* returns
CleanupPop(p) ==
    /\ At(p, "pop")
    /\ PAID' = Pop(PAID, Head(expired[p]))
    /\ swept' = [swept EXCEPT ![p] = @ \/ Contains(PAID, Head(expired[p]))]
    /\ expired' = [expired EXCEPT ![p] = Tail(@)]
    /\ pc' = [pc EXCEPT ![p] = IF Tail(expired[p]) = <<>> THEN "decode" ELSE "pop"]
    /\ now' = [now EXCEPT ![p] = IF Tail(expired[p]) = <<>> THEN 0 ELSE @]
    /\ UNCHANGED <<clock, ticks, nreq, ledger, body, it, amount_sol,
                   signature, calls, resp>>

\* what the validation of a body raises or answers: "" when it passes
ValidationError(b) ==
    IF b.json # "object" THEN "AttributeError"
    ELSE IF b.receiver = NoReceiver THEN "Missing receiver_wallet_address"
    ELSE IF ~ToFloat(b.amount).ok THEN "Invalid amount_sol"
    ELSE IF OutOfRange(ToFloat(b.amount)) THEN "amount_sol out of allowed range"
    ELSE IF ~IsPubkey(b.receiver) THEN "Invalid receiver wallet address"
    ELSE ""

\* mutant: the membership test never finds the key
DedupHit_Never(b) == FALSE

\* mutant: the store is searched by the key text alone, for any receiver
DedupHit_AnyReceiver(b) ==
    Truthy(b.key) /\ \E i \in LiveIdx(PAID) : PAID[i].key[2] = StrOf(b.key)

\* if idem_key: k = (receiver, str(idem_key)); k in PAID
DedupHit(b) == Truthy(b.key) /\ Contains(PAID, <<b.receiver, StrOf(b.key)>>)

\* mutant: the receiver is checked only after the recency token is fetched
Validate_FetchFirst(p) ==
    /\ At(p, "decode")
    /\ \E b \in Bodies :
         /\ ValidationError(b) = "Invalid receiver wallet address"
         /\ body' = [body EXCEPT ![p] = b]
         /\ calls' = [calls EXCEPT ![p] = 1]
         /\ Return(p, ErrorResp(400, ValidationError(b)))
    /\ UNCHANGED <<shared, now, it, expired, amount_sol, signature, swept>>

\* the body is decoded and validated; a valid request tests its key against
\* PAID and, on a miss, computes lamports = int(amount_sol * LAMPORTS_PER_SOL)
Validate(p) ==
    /\ At(p, "decode")
    /\ \E b \in Bodies :
         /\ body' = [body EXCEPT ![p] = b]
         /\ IF b.json # "object"
            THEN /\ Return(p, Unhandled(ValidationError(b)))
                 /\ UNCHANGED amount_sol
            ELSE IF ValidationError(b) # ""
            THEN /\ Return(p, ErrorResp(400, ValidationError(b)))
                 /\ UNCHANGED amount_sol
            ELSE /\ amount_sol' = [amount_sol EXCEPT ![p] = ToFloat(b.amount)]
                 /\ IF DedupHit(b)
                    THEN pc' = [pc EXCEPT ![p] = "read"] /\ UNCHANGED resp
                    ELSE IF ToFloat(b.amount).nan
                    THEN Return(p, Unhandled("ValueError"))
                    ELSE pc' = [pc EXCEPT ![p] = "fetch"] /\ UNCHANGED resp
    /\ UNCHANGED <<shared, now, it, expired, signature, calls, swept>>

\* sig, _ = PAID[k]; the fast-path response
DedupRead(p) ==
    /\ At(p, "read")
    /\ IF Contains(PAID, KeyOf(p))
       THEN Return(p, OkResp(Get(PAID, KeyOf(p)).sig, TRUE, body[p].receiver,
                             amount_sol[p]))
       ELSE Return(p, Unhandled("KeyError"))
    /\ UNCHANGED <<shared, body, now, it, expired, amount_sol, signature,
                   calls, swept>>

\* mutant: the transfer is submitted although fetching the blockhash failed
FetchBlockhash_SubmitsAnyway(p) ==
    /\ At(p, "fetch")
    /\ calls' = [calls EXCEPT ![p] = @ + 1]
    /\ ledger' = Append(ledger,
                    [to |-> body[p].receiver, lamports |-> amount_sol[p].v,
                     key |-> body[p].key])
    /\ Return(p, ErrorResp(500, "Transfer failed"))
    /\ UNCHANGED <<PAID, clock, ticks, nreq, body, now, it, expired,
                   amount_sol, signature, swept>>

\* client.get_latest_blockhash(): it answers or it fails
FetchBlockhash(p) ==
    /\ At(p, "fetch")
    /\ calls' = [calls EXCEPT ![p] = @ + 1]
    /\ \E answered \in BOOLEAN :
         IF answered
         THEN pc' = [pc EXCEPT ![p] = "submit"] /\ UNCHANGED resp
         ELSE Return(p, ErrorResp(500, "Transfer failed"))
    /\ UNCHANGED <<shared, body, now, it, expired, amount_sol, signature,
                   swept>>

\* mutant: a failure of the gateway is swallowed and the request goes on to
\* record, with no transaction id
SendTransaction_SwallowsFailure(p) ==
    /\ At(p, "submit")
    /\ calls' = [calls EXCEPT ![p] = @ + 1]
    /\ pc' = [pc EXCEPT ![p] = "record"]
    /\ UNCHANGED <<shared, body, now, it, expired, amount_sol, signature,
                   resp, swept>>

\* client.send_transaction(tx): the gateway accepts the transfer or fails
SendTransaction(p) ==
    /\ At(p, "submit")
    /\ calls' = [calls EXCEPT ![p] = @ + 1]
    /\ \E accepted \in BOOLEAN :
         IF accepted
         THEN /\ ledger' = Append(ledger,
                     [to |-> body[p].receiver, lamports |-> amount_sol[p].v,
                      key |-> body[p].key])
              /\ signature' = [signature EXCEPT ![p] = Len(ledger) + 1]
              /\ pc' = [pc EXCEPT ![p] = "record"]
              /\ UNCHANGED resp
         ELSE /\ Return(p, ErrorResp(500, "Transfer failed"))
              /\ UNCHANGED <<ledger, signature>>
    /\ UNCHANGED <<PAID, clock, ticks, nreq, body, now, it, expired,
                   amount_sol, swept>>

\* if idem_key: PAID[k] = (signature, time.time()); the success response
Record(p) ==
    /\ At(p, "record")
    /\ PAID' = IF Truthy(body[p].key)
               THEN Put(PAID, KeyOf(p), signature[p], clock)
               ELSE PAID
    /\ Return(p, OkResp(signature[p], FALSE, body[p].receiver, amount_sol[p]))
    /\ UNCHANGED <<clock, ticks, nreq, ledger, body, now, it, expired,
                   amount_sol, signature, calls, swept>>

\* the response is sent; the thread is free for the next request
Respond(p) ==
    /\ pc[p] = "done"
    /\ pc' = [pc EXCEPT ![p] = "idle"]
    /\ body' = [body EXCEPT ![p] = NoBody]
    /\ now' = [now EXCEPT ![p] = 0]
    /\ it' = [it EXCEPT ![p] = NoIter]
    /\ expired' = [expired EXCEPT ![p] = <<>>]
    /\ amount_sol' = [amount_sol EXCEPT ![p] = NoFloat]
    /\ signature' = [signature EXCEPT ![p] = 0]
    /\ calls' = [calls EXCEPT ![p] = 0]
    /\ resp' = [resp EXCEPT ![p] = NoResp]
    /\ swept' = [swept EXCEPT ![p] = FALSE]
    /\ UNCHANGED shared

\* one step of thread p
Step(p) ==
    \/ Health(p)
    \/ Receive(p)
    \/ CleanupIter(p)
    \/ CleanupNext(p)
    \/ CleanupPop(p)
    \/ Validate(p)
    \/ DedupRead(p)
    \/ FetchBlockhash(p)
    \/ SendTransaction(p)
    \/ Record(p)
    \/ Respond(p)

Next == Tick \/ \E p \in Procs : Step(p)

Spec == Init /\ [][Next]_vars

\* sequential processing: a thread steps only while every other is idle
Alone(p) == \A q \in Procs \ {p} : pc[q] = "idle"

SeqNext == Tick \/ \E p \in Procs : Alone(p) /\ Step(p)

SeqSpec == Init /\ [][SeqNext]_vars

\* ------------------------------------------------------------------ claims
\* the request of thread p carries a usable idempotency key
Keyed(p) == Truthy(body[p].key)

\* ledger entry e is a transfer to receiver r submitted under key text k
ForKey(e, r, k) == e.to = r /\ Truthy(e.key) /\ StrOf(e.key) = k

\* the accepted transfers for the composite key (r, k), as ledger indices
Submissions(r, k) == {j \in DOMAIN ledger : ForKey(ledger[j], r, k)}

\* thread p has returned with the server error of a failed gateway call
GatewayFailed(p) == pc[p] = "done" /\ resp[p] = ErrorResp(500, "Transfer failed")

(***************************************************************************)
(* C1. Under sequential processing, while the record of (r, k) is in the   *)
(* store a valid request with that key never reaches the gateway: it       *)
(* answers ok, already_paid and the stored signature, with no gateway      *)
(* call; and from the transfer a live record names onwards the gateway has *)
(* accepted no other transfer for (r, k).                                  *)
(***************************************************************************)
C1_Idempotent ==
    /\ \A p \in Procs :
          pc[p] \in {"fetch", "submit", "record"} /\ Keyed(p)
              => ~Contains(PAID, KeyOf(p))
    /\ \A p \in Procs :
          pc[p] = "done" /\ ValidationError(body[p]) = "" /\ Keyed(p)
            /\ Contains(PAID, KeyOf(p))
              => /\ resp[p].status = 200 /\ resp[p].ok
                 /\ resp[p].sig = Get(PAID, KeyOf(p)).sig
                 /\ \/ resp[p].already_paid /\ calls[p] = 0 /\ signature[p] = 0
                    \/ ~resp[p].already_paid /\ signature[p] = resp[p].sig
    /\ \A p \in Procs :
          pc[p] = "done" /\ resp[p].already_paid
              => Keyed(p) /\ Contains(PAID, KeyOf(p)) /\ calls[p] = 0
    /\ \A i \in LiveIdx(PAID) :
          /\ PAID[i].sig \in DOMAIN ledger
          /\ Submissions(PAID[i].key[1], PAID[i].key[2])
                \cap (PAID[i].sig .. Len(ledger)) = {PAID[i].sig}

C1_Witness ==
    \E p \in Procs :
        /\ pc[p] = "done" /\ resp[p].already_paid
        /\ resp[p].sig = Get(PAID, KeyOf(p)).sig
        /\ Cardinality(Submissions(body[p].receiver, StrOf(body[p].key))) = 1

(***************************************************************************)
(* C2. When the gateway call of a keyed request has failed, the request    *)
(* has answered the 500 server error and the store holds no record for its *)
(* (receiver, key), so that a repeat is not short-circuited.               *)
(***************************************************************************)
C2_FailureLeavesNoRecord ==
    \A p \in Procs :
        pc[p] = "done" /\ calls[p] > 0 /\ signature[p] = 0 /\ Keyed(p)
            => /\ resp[p] = ErrorResp(500, "Transfer failed")
               /\ ~Contains(PAID, KeyOf(p))

\* a body that passes validation with an amount that is a number
ValidRequest(b) == ValidationError(b) = "" /\ ~ToFloat(b.amount).nan

\* the request of thread p was sent without an idempotency key
NoKey(p) == body[p].key.t = "absent"

\* thread p answers success with the transfer the gateway accepted from it
PaidFresh(p) ==
    /\ resp[p].status = 200 /\ resp[p].ok /\ ~resp[p].already_paid
    /\ calls[p] = 2
    /\ resp[p].sig = signature[p]
    /\ signature[p] \in DOMAIN ledger
    /\ ledger[signature[p]] = [to |-> body[p].receiver, key |-> body[p].key,
                               lamports |-> amount_sol[p].v]

(***************************************************************************)
(* C3. A valid request without idempotency key is never deduplicated:      *)
(* whatever the store and the ledger hold, it goes on to the gateway,      *)
(* never takes the fast path, answers a success with already_paid = false  *)
(* and the transfer accepted from it (or the gateway's failure), and its   *)
(* record step leaves the store as it is.                                  *)
(***************************************************************************)
C3_NoKeyNoDedup ==
    /\ [](\A p \in Procs :
            ValidRequest(body[p]) /\ NoKey(p)
              => /\ pc[p] \in {"fetch", "submit", "record", "done"}
                 /\ pc[p] = "done" => PaidFresh(p) \/ GatewayFailed(p))
    /\ [][\A p \in Procs :
            /\ pc[p] = "decode" /\ pc'[p] # "decode"
                  /\ ValidRequest(body'[p]) /\ body'[p].key.t = "absent"
                  => pc'[p] = "fetch"
            /\ pc[p] = "record" /\ pc'[p] = "done" /\ NoKey(p)
                  => PAID' = PAID]_vars

C3_Witness ==
    \E p \in Procs :
        /\ pc[p] = "done" /\ NoKey(p) /\ PaidFresh(p)
        /\ \E j \in DOMAIN ledger :
              j # signature[p] /\ ledger[j] = ledger[signature[p]]
        /\ PAID = <<>>

\* the record in slot i of d is older than the TTL at time t
Expired(d, i, t) == t - d[i].ts > PAID_TTL_SEC

(***************************************************************************)
(* C4. The sweep at the start of a request removes exactly the records     *)
(* with now - recordedAt > TTL: each pop removes only such a record and    *)
(* leaves every other record untouched, and when the sweep returns no such *)
(* record is left in the store.                                            *)
(***************************************************************************)
C4_SweepRemovesExactlyExpired ==
    [][\A p \in Procs :
        /\ pc[p] = "pop" /\ PAID' # PAID
              => \A i \in DOMAIN PAID :
                    PAID'[i] # PAID[i] => PAID[i].live /\ Expired(PAID, i, now[p])
        /\ pc[p] \in {"iterate", "pop"} /\ pc'[p] = "decode"
              => \A i \in LiveIdx(PAID') : ~Expired(PAID', i, now[p])]_vars

\* the body of thread p's request has been read
Decoded(p) == body[p].json # ""

\* an amount the validation is to accept: a number a with 0 < a <= 0.5
\* (an absent amount stands for the configured default)
AcceptableAmount(a) ==
    \/ a.t = "absent"
    \/ a.t = "num" /\ 0 < a.v /\ a.v <= MaxAmount

AmountErrors == {"amount_sol out of allowed range", "Invalid amount_sol"}

(***************************************************************************)
(* C5. Validation accepts an amount a iff 0 < a <= 0.5: a request (to a   *)
(* well-formed receiver, so that the amount alone decides) whose amount is *)
(* 0, negative, NaN, above 0.5 or no number has been answered 400 with the *)
(* amount error, without gateway call or record; an amount in range is     *)
(* never answered with an amount error.                                    *)
(***************************************************************************)
C5_AmountValidation ==
    \A p \in Procs :
        body[p].json = "object" /\ IsPubkey(body[p].receiver)
            => IF AcceptableAmount(body[p].amount)
               THEN resp[p].error \notin AmountErrors
               ELSE /\ pc[p] = "done" /\ resp[p].status = 400
                    /\ resp[p].error \in AmountErrors
                    /\ calls[p] = 0 /\ signature[p] = 0

(***************************************************************************)
(* C6. A request whose receiver is missing or is no valid address has been *)
(* answered with a 400 client error, whatever its amount and key, without  *)
(* gateway call or record.                                                 *)
(***************************************************************************)
C6_BadReceiverRejected ==
    \A p \in Procs :
        Decoded(p) /\ ~IsPubkey(body[p].receiver)
            => /\ pc[p] = "done" /\ resp[p].status = 400
               /\ calls[p] = 0 /\ signature[p] = 0

(***************************************************************************)
(* C7. A record is never mutated after its creation: while it stays in the *)
(* store its transaction id and recordedAt do not change, under every      *)
(* interleaving of concurrent requests; it leaves the store only by a pop  *)
(* of the expiry sweep.                                                    *)
(***************************************************************************)
C7_RecordNeverMutated ==
    [][\A i \in LiveIdx(PAID) :
        /\ PAID'[i].live => PAID'[i] = PAID[i]
        /\ ~PAID'[i].live => \E p \in Procs : pc[p] = "pop"]_vars

(***************************************************************************)
(* C8. Nothing excludes a second request between the dedup check and the   *)
(* record write of a first: a keyed request whose transfer was accepted    *)
(* stores its own signature under its key, over whatever another request   *)
(* stored there since its miss, and answers already_paid = false.          *)
(***************************************************************************)
C8_LastWriterWins ==
    [][\A p \in Procs :
        pc[p] = "record" /\ pc'[p] = "done" /\ Keyed(p)
            => /\ Get(PAID', KeyOf(p)) = LiveSlot(KeyOf(p), signature[p], clock)
               /\ resp'[p] = OkResp(signature[p], FALSE, body[p].receiver,
                                    amount_sol[p])]_vars

\* two requests, no time passed: both missed, both transfers were accepted
\* for the one key, p has recorded and answered, q has just overwritten
C8_Witness ==
    \E p, q \in Procs :
        /\ p # q /\ nreq = 2 /\ clock = 0
        /\ pc[p] = "idle" /\ pc[q] = "done"
        /\ Keyed(q) /\ PaidFresh(q)
        /\ Cardinality(Submissions(body[q].receiver, StrOf(body[q].key))) = 2
        /\ Get(PAID, KeyOf(q)).sig = signature[q]

(***************************************************************************)
(* C9. A request that fails validation causes no state change: it has made *)
(* no gateway call and the store is as it was when the request arrived     *)
(* (the request removed no record).                                        *)
(***************************************************************************)
C9_ValidationFailureChangesNothing ==
    \A p \in Procs :
        pc[p] = "done" /\ resp[p].status = 400
            => calls[p] = 0 /\ signature[p] = 0 /\ ~swept[p]

(***************************************************************************)
(* C9, amended. A request that fails validation makes no gateway call and  *)
(* writes no record; the store changes only by a pop of a request's        *)
(* opening sweep, which runs before validation, or by the record step of a *)
(* request whose transfer was accepted.                                    *)
(***************************************************************************)
C9_ValidationFailureOnlySweeps ==
    /\ [](\A p \in Procs :
            pc[p] = "done" /\ resp[p].status = 400
                => calls[p] = 0 /\ signature[p] = 0)
    /\ [][\A p \in Procs :
            pc[p] = "decode" /\ pc'[p] = "done" /\ resp'[p].status = 400
                => PAID' = PAID /\ ledger' = ledger]_vars
    /\ [][PAID' # PAID
            => \E p \in Procs :
                 \/ pc[p] = "pop" /\ PAID' = Pop(PAID, Head(expired[p]))
                 \/ /\ pc[p] = "record" /\ signature[p] \in DOMAIN ledger
                    /\ PAID' = Put(PAID, KeyOf(p), signature[p], clock)]_vars

C9_Witness ==
    \E p \in Procs : pc[p] = "done" /\ resp[p].status = 400 /\ swept[p]

(***************************************************************************)
(* C10. The store is safe under concurrent lookup, record and sweep: no    *)
(* interleaving puts a request into an unhandled error of the dict; every  *)
(* sweep completes and every lookup returns a record or reports a miss.    *)
(***************************************************************************)
C10_StoreIsThreadSafe ==
    \A p \in Procs :
        pc[p] = "done" => resp[p].error \notin {"RuntimeError", "KeyError"}

\* the store holds a record under key text k for a receiver other than r
OtherReceiverRecorded(r, k) ==
    \E i \in LiveIdx(PAID) : PAID[i].key[2] = k /\ PAID[i].key[1] # r

(***************************************************************************)
(* C11. The key of a record is the pair (receiver, idempotencyKey): a      *)
(* valid keyed request takes the fast path exactly when the store holds a  *)
(* record for its own pair, so that a record of (r1, k) never              *)
(* short-circuits a request for (r2, k); an already_paid answer names a    *)
(* transfer to the request's own receiver; and the request that missed     *)
(* goes to the gateway and stores its signature under its own pair,        *)
(* leaving the records of the other pairs as they are.                     *)
(***************************************************************************)
C11_CompositeKey ==
    /\ [][\A p \in Procs :
            pc[p] = "decode" /\ pc'[p] # "decode"
                /\ ValidRequest(body'[p]) /\ Truthy(body'[p].key)
              => IF Contains(PAID, <<body'[p].receiver, StrOf(body'[p].key)>>)
                 THEN pc'[p] = "read"
                 ELSE pc'[p] = "fetch"]_vars
    /\ [](\A p \in Procs :
            pc[p] = "done" /\ resp[p].already_paid
              => /\ resp[p].sig \in DOMAIN ledger
                 /\ ForKey(ledger[resp[p].sig], body[p].receiver,
                           StrOf(body[p].key)))
    /\ [][\A p \in Procs :
            pc[p] = "record" /\ pc'[p] = "done" /\ Keyed(p)
              => /\ Get(PAID', KeyOf(p)).sig = signature[p]
                 /\ ledger[signature[p]].to = body[p].receiver
                 /\ \A i \in LiveIdx(PAID) :
                       PAID[i].key # KeyOf(p) => PAID'[i] = PAID[i]]_vars

\* a request for (r2, k) was paid afresh and recorded while the record of
\* (r1, k) is in the store, each record with its own transfer
C11_Witness ==
    \E p \in Procs :
        /\ pc[p] = "done" /\ Keyed(p) /\ PaidFresh(p)
        /\ OtherReceiverRecorded(body[p].receiver, StrOf(body[p].key))
        /\ Contains(PAID, KeyOf(p))
        /\ \A i \in LiveIdx(PAID) :
              PAID[i].key # KeyOf(p) => PAID[i].sig # signature[p]

\* thread p holds the answer of a GET /health
HealthAnswered(p) == pc[p] = "done" /\ resp[p] = HealthResp

(***************************************************************************)
(* C12. GET /health has no side effects: the step that answers it leaves   *)
(* the store, the ledger, the clock and every other request as they are,   *)
(* whatever the store holds and wherever the other thread stands; the      *)
(* request has made no gateway call, swept nothing and recorded nothing,   *)
(* and sending its answer changes neither the store nor the ledger.        *)
(***************************************************************************)
C12_HealthNoSideEffects ==
    /\ [][\A p \in Procs :
            pc[p] = "idle" /\ pc'[p] = "done"
              => /\ resp'[p] = HealthResp
                 /\ PAID' = PAID /\ ledger' = ledger /\ clock' = clock
                 /\ calls' = calls /\ signature' = signature
                 /\ \A q \in Procs \ {p} :
                       /\ pc'[q] = pc[q] /\ resp'[q] = resp[q]
                       /\ it'[q] = it[q] /\ expired'[q] = expired[q]]_vars
    /\ [](\A p \in Procs :
            HealthAnswered(p)
              => calls[p] = 0 /\ signature[p] = 0 /\ ~swept[p])
    /\ [][\A p \in Procs :
            HealthAnswered(p) /\ pc'[p] # "done"
              => PAID' = PAID /\ ledger' = ledger]_vars

\* a GET /health is answered while the store holds a record older than the
\* TTL and the other thread is in the middle of a reward request
C12_Witness ==
    \E p, q \in Procs :
        /\ HealthAnswered(p)
        /\ pc[q] \in {"iterate", "pop", "read", "submit", "record"}
        /\ \E i \in LiveIdx(PAID) : Expired(PAID, i, clock)

(***************************************************************************)
(* C13. In every reachable state, under concurrent requests too, each      *)
(* record of the store under (r, k) holds the transaction id of a transfer *)
(* the gateway accepted, to receiver r, from a request that carried key k; *)
(* and a record is written or rewritten only by the record step of a       *)
(* request whose two gateway calls succeeded, with the id the gateway      *)
(* returned to that request.                                               *)
(***************************************************************************)
C13_RecordHoldsAcceptedTransfer ==
    /\ [](\A i \in LiveIdx(PAID) :
            /\ PAID[i].sig \in DOMAIN ledger
            /\ ForKey(ledger[PAID[i].sig], PAID[i].key[1], PAID[i].key[2]))
    /\ [][\A i \in DOMAIN PAID' :
            PAID'[i].live /\ (i \notin DOMAIN PAID \/ PAID'[i] # PAID[i])
              => \E p \in Procs :
                    /\ pc[p] = "record" /\ calls[p] = 2
                    /\ signature[p] \in DOMAIN ledger
                    /\ ledger[signature[p]].to = body[p].receiver
                    /\ ledger[signature[p]].key = body[p].key
                    /\ PAID'[i] = LiveSlot(KeyOf(p), signature[p], clock)]_vars

\* two concurrent requests were both paid for one key, the later write
\* replaced the earlier, and another record stands beside it
C13_Witness ==
    \E i, j \in LiveIdx(PAID) :
        /\ i # j
        /\ Cardinality(Submissions(PAID[i].key[1], PAID[i].key[2])) = 2
        /\ PAID[i].sig = 1 /\ ledger[2].key = ledger[1].key
        /\ ledger[2].to = ledger[1].to

\* the handler of thread p's POST /reward/send has ended
Ended(p) == pc[p] = "done" /\ ~HealthAnswered(p)

\* the terminal states of a request
FastPathReturned(p) ==
    resp[p].status = 200 /\ resp[p].ok /\ resp[p].already_paid /\ calls[p] = 0
Recorded(p) == PaidFresh(p)
\* Failed(ValidationError), a client error, or Failed(GatewayError)
Failed(p) ==
    \/ /\ resp[p].status = 400 /\ ~resp[p].ok /\ calls[p] = 0
       /\ resp[p].error \in
            AmountErrors \cup {"Missing receiver_wallet_address",
                               "Invalid receiver wallet address"}
    \/ GatewayFailed(p)

(***************************************************************************)
(* C14. A POST /reward/send that has ended is in exactly one of the        *)
(* terminal states FastPathReturned, Recorded and Failed.                  *)
(***************************************************************************)
C14_EndsInTerminalState ==
    \A p \in Procs :
        Ended(p)
            => Cardinality({t \in {"FastPathReturned", "Recorded", "Failed"} :
                    \/ t = "FastPathReturned" /\ FastPathReturned(p)
                    \/ t = "Recorded" /\ Recorded(p)
                    \/ t = "Failed" /\ Failed(p)}) = 1

(***************************************************************************)
(* C15. In the submitting step the recency token is fetched before the     *)
(* transfer is submitted: a request stands before send_transaction only    *)
(* with its get_latest_blockhash answered, and the ledger grows only by    *)
(* the transfer of such a request.  When fetching the token fails the      *)
(* request answers the 500 server error at once: it has made that one      *)
(* gateway call, has submitted no transfer and holds no transaction id,    *)
(* and neither that step nor the sending of the answer writes a record.    *)
(***************************************************************************)
C15_TokenBeforeTransfer ==
    /\ [](\A p \in Procs :
            /\ pc[p] = "fetch" => calls[p] = 0
            /\ pc[p] = "submit" => calls[p] = 1
            /\ pc[p] = "done" /\ calls[p] = 1
                  => GatewayFailed(p) /\ signature[p] = 0)
    /\ [][ledger' # ledger
            => \E p \in Procs :
                  /\ pc[p] = "submit" /\ calls[p] = 1 /\ calls'[p] = 2
                  /\ ledger' = Append(ledger,
                         [to |-> body[p].receiver,
                          lamports |-> amount_sol[p].v, key |-> body[p].key])]_vars
    /\ [][\A p \in Procs :
            pc[p] = "fetch" /\ pc'[p] = "done"
              => /\ resp'[p] = ErrorResp(500, "Transfer failed")
                 /\ calls'[p] = 1 /\ signature'[p] = 0
                 /\ ledger' = ledger /\ PAID' = PAID]_vars
    /\ [][\A p \in Procs :
            pc[p] = "done" /\ calls[p] = 1 /\ pc'[p] # "done"
              => ledger' = ledger /\ PAID' = PAID]_vars

\* the token fetch of a keyed request failed: one gateway call, the 500
\* answer, no transfer and no record for its key
C15_Witness ==
    \E p \in Procs :
        /\ pc[p] = "done" /\ calls[p] = 1 /\ GatewayFailed(p) /\ Keyed(p)
        /\ Submissions(body[p].receiver, StrOf(body[p].key)) = {}
        /\ ~Contains(PAID, KeyOf(p))

(***************************************************************************)
(* C16. Validation precedes deduplication: a request whose amount is out   *)
(* of range or no valid amount is answered with the 400 client error and   *)
(* never with already_paid = true, also when the store holds a live record *)
(* for its (receiver, key).                                                *)
(***************************************************************************)
C16_InvalidNeverFastPath ==
    \A p \in Procs :
        pc[p] = "done" /\ body[p].json = "object"
          /\ ~AcceptableAmount(body[p].amount)
          /\ Keyed(p) /\ Contains(PAID, KeyOf(p))
            => resp[p].status = 400 /\ ~resp[p].already_paid

\* thread p's request passed validation with a usable key and has ended
\* without a gateway call: it found its key in the store
TookFastPath(p) ==
    /\ pc[p] = "done" /\ ValidRequest(body[p]) /\ Keyed(p) /\ calls[p] = 0

\* the amount of thread p's request differs from that of every transfer
\* accepted for its (receiver, key), and there is such a transfer
DifferentAmount(p) ==
    /\ Submissions(body[p].receiver, StrOf(body[p].key)) # {}
    /\ \A j \in Submissions(body[p].receiver, StrOf(body[p].key)) :
          ledger[j].lamports # ToFloat(body[p].amount).v

(***************************************************************************)
(* C17. The dedup lookup ignores the amount: a valid request that found    *)
(* its (receiver, key) in the store, with an amount other than the one     *)
(* paid for that pair, has made no gateway submission and is answered ok   *)
(* and already_paid with the signature of the transfer accepted for that   *)
(* pair, together with the amount of the current request.                  *)
(***************************************************************************)
C17_DedupIgnoresAmount ==
    \A p \in Procs :
        TookFastPath(p) /\ DifferentAmount(p)
            => /\ resp[p].status = 200 /\ resp[p].ok /\ resp[p].already_paid
               /\ resp[p].sig \in Submissions(body[p].receiver, StrOf(body[p].key))
               /\ resp[p].amount.v = ToFloat(body[p].amount).v
               /\ resp[p].to = body[p].receiver
               /\ signature[p] = 0

\* the keys that are supplied but false: the empty string and the number 0
FalsyKeys == {[t |-> "str", v |-> ""], [t |-> "num", v |-> "0"]}

\* the request of thread p supplies an idempotency key that is false
FalsyKey(p) == body[p].key \in FalsyKeys

\* the texts str(idem_key) of these keys
FalsyTexts == {StrOf(k) : k \in FalsyKeys}

(***************************************************************************)
(* C18. A key that is supplied but false (the empty string, the number 0)  *)
(* is treated as an absent key: a valid request carrying it is never       *)
(* deduplicated, whatever the store and the ledger hold; it goes on to the *)
(* gateway and answers already_paid = false with the transfer accepted     *)
(* from it (or the gateway's failure); its record step leaves the store as *)
(* it is, and the store never holds a record under the text of such a key. *)
(***************************************************************************)
C18_FalsyKeyAsAbsent ==
    /\ [](\A p \in Procs :
            ValidRequest(body[p]) /\ FalsyKey(p)
              => /\ pc[p] \in {"fetch", "submit", "record", "done"}
                 /\ pc[p] = "done" => PaidFresh(p) \/ GatewayFailed(p))
    /\ [](\A i \in LiveIdx(PAID) : PAID[i].key[2] \notin FalsyTexts)
    /\ [][\A p \in Procs :
            /\ pc[p] = "decode" /\ pc'[p] # "decode"
                  /\ ValidRequest(body'[p]) /\ body'[p].key \in FalsyKeys
                  => pc'[p] = "fetch"
            /\ pc[p] = "record" /\ pc'[p] = "done" /\ FalsyKey(p)
                  => PAID' = PAID]_vars

\* a request with the key 0 was paid although the same request, key 0
\* included, had been paid before; the store is empty
C18_Witness ==
    \E p \in Procs :
        /\ pc[p] = "done" /\ FalsyKey(p) /\ body[p].key.t = "num"
        /\ PaidFresh(p)
        /\ \E j \in DOMAIN ledger :
              j < signature[p] /\ ledger[j] = ledger[signature[p]]
        /\ PAID = <<>>

(***************************************************************************)
(* C19. Validation errors have a fixed precedence, one error per request:  *)
(* a request without receiver is answered 400 with the missing-receiver    *)
(* error; a request with a malformed (non-empty) receiver is answered 400  *)
(* with the amount error when its amount is out of range or no valid       *)
(* amount, and with the receiver error only when its amount is acceptable. *)
(***************************************************************************)
C19_ErrorPrecedence ==
    \A p \in Procs :
        pc[p] = "done" /\ body[p].json = "object"
            => /\ body[p].receiver = NoReceiver
                    => resp[p] = ErrorResp(400, "Missing receiver_wallet_address")
               /\ body[p].receiver # NoReceiver /\ ~IsPubkey(body[p].receiver)
                    => IF AcceptableAmount(body[p].amount)
                       THEN resp[p] = ErrorResp(400, "Invalid receiver wallet address")
                       ELSE /\ resp[p].status = 400 /\ ~resp[p].ok
                            /\ resp[p].error \in AmountErrors

====
